---- MODULE Spec2Model ----
(***************************************************************************)
(* MediQuery UI (mediquery_ui/app/page.tsx).                               *)
(*                                                                         *)
(* Two state machines are modelled:                                        *)
(*                                                                         *)
(*  Spec     the MediQueryUI component: the four useState cells, the       *)
(*           in-flight invocations of the async function askQuestion, and  *)
(*           the user / network events that drive them.                    *)
(*  FmtSpec  one call of formatAnswerWithCitations: the forEach loop over  *)
(*           the citations, one String.prototype.replace per iteration.    *)
(*                                                                         *)
(* Strings are sequences of one-character strings, so that trim, search    *)
(* and replace are computed character by character as the runtime does.    *)
(* The page is a Next.js client component ('use client', line 1), hence    *)
(* React 18: the state updates made in one handler or in one continuation  *)
(* of an async function are batched into one render, and are one step.     *)
(***************************************************************************)
EXTENDS Integers, Sequences, FiniteSets, TLC

VARIABLES
    question,           \* useState('')                       line 60
    loading,            \* useState(false)                    line 61
    result,             \* useState<QueryResult | null>(null) line 62
    error,              \* useState<string | null>(null)      line 63
    reqs,               \* suspended invocations of askQuestion, oldest first
    nSubmitted,         \* number of fetch calls issued so far (request ids)
    event,              \* history: the last event handled, the request it
                        \* issued or resumed, and the outcome delivered to it
    answer,             \* formatAnswerWithCitations: parameter answer
    citations,          \* formatAnswerWithCitations: parameter citations
    formattedAnswer,    \* formatAnswerWithCitations: local formattedAnswer
    index,              \* forEach: number of citations already processed
    fpc                 \* formatAnswerWithCitations: "loop", "returned", or
                        \* "idle" when no call is being followed

uiVars  == <<question, loading, result, error, reqs, nSubmitted, event>>
fmtVars == <<answer, citations, formattedAnswer, index, fpc>>
vars    == <<question, loading, result, error, reqs, nSubmitted, event,
             answer, citations, formattedAnswer, index, fpc>>

(***************************************************************************)
(* Bounds of the model.                                                    *)
(***************************************************************************)
MaxSubmits  == 3    \* fetch calls issued in one run
MaxInFlight == 2    \* invocations of askQuestion suspended at one time
MaxAnsParts == 3    \* pieces an answer text is assembled from
MaxCites    == 2    \* longest citation list

(***************************************************************************)
(* Strings.                                                                *)
(***************************************************************************)
\* JavaScript null, and a non-null value v, of a "T | null" state cell.
Null == <<>>
Some(v) == <<v>>

\* WhiteSpace of String.prototype.trim, restricted to the characters typed.
WhiteSpace == {" "}

RECURSIVE TrimStart(_)
TrimStart(s) ==
    IF s # <<>> /\ Head(s) \in WhiteSpace THEN TrimStart(Tail(s)) ELSE s

RECURSIVE TrimEnd(_)
TrimEnd(s) ==
    IF s # <<>> /\ s[Len(s)] \in WhiteSpace
    THEN TrimEnd(SubSeq(s, 1, Len(s) - 1))
    ELSE s

\* question.trim()
Trim(s) == TrimEnd(TrimStart(s))

\* !question.trim(): the empty string is the only falsy string.
Blank(s) == Trim(s) = <<>>

Digit == <<"0", "1", "2", "3", "4", "5", "6", "7", "8", "9">>

\* Number to decimal string, as a template literal `${n}` converts it (n >= 0).
RECURSIVE NumStr(_)
NumStr(n) ==
    IF n < 10 THEN <<Digit[n + 1]>>
    ELSE NumStr(n \div 10) \o <<Digit[(n % 10) + 1]>>

(***************************************************************************)
(* The backend, seen from the page: POST /ask answers with a status and,   *)
(* on 2xx, a JSON body that parses to a QueryResult or fails to parse; or  *)
(* the fetch itself is rejected (network failure).                         *)
(***************************************************************************)
\* interface QueryResult: two bodies the backend may send.
QueryResults ==
    { [topic |-> "drug", domain_filter |-> <<"drugs.com">>,
       answer |-> <<"a", "[", "1", "]">>,
       citations |-> << <<"u">> >>],
      [topic |-> "symptom", domain_filter |-> <<"mayoclinic.org">>,
       answer |-> <<"[", "2", "]", "[", "1", "]">>,
       citations |-> << <<"u">>, <<"v">> >>] }

\* res.status
Statuses == {200, 404, 500}

\* res.ok: the status is in the range 200-299.
Ok(status) == status >= 200 /\ status <= 299

\* new Error(`HTTP error! Status: ${res.status}`).message
HttpErrorMessage(status) == <<"HTTP error! Status: ">> \o NumStr(status)

\* The message of the TypeError a rejected fetch carries.
NetworkErrorMessage == <<"Failed to fetch">>

\* The message of the SyntaxError a rejected res.json() carries.
ParseErrorMessage == <<"Unexpected end of JSON input">>

\* What settles the promise of fetch(): a rejection, or a Response with a status.
FetchOutcomes ==
    { [kind |-> "rejected", status |-> 0] }
        \cup { [kind |-> "response", status |-> s] : s \in Statuses }

\* What settles the promise of res.json(): a rejection, or the parsed body.
JsonOutcomes ==
    { [kind |-> "rejected", data |-> Null] }
        \cup { [kind |-> "parsed", data |-> Some(d)] : d \in QueryResults }

(***************************************************************************)
(* The component.                                                          *)
(***************************************************************************)
\* What the user may have in the input box: nothing, white space only, a
\* question, a question with white space around it.
Questions == { <<>>, <<" ">>, <<"a">>, <<" ", "b", " ">> }

RemoveAt(s, i) == SubSeq(s, 1, i - 1) \o SubSeq(s, i + 1, Len(s))

\* <Button disabled={loading || !question.trim()}>
ButtonDisabled == loading \/ Blank(question)

\* The user may submit once more within the bounds of the model.
MaySubmit == nSubmitted < MaxSubmits /\ Len(reqs) < MaxInFlight

\* The request is outstanding: its askQuestion has not run to its end.
Outstanding == { reqs[i].id : i \in 1..Len(reqs) }

\* Mutant of askQuestion: the guard `if (!question.trim()) return` is missing.
askQuestion_NoGuard ==
    /\ loading' = TRUE
    /\ result' = Null
    /\ error' = Null
    /\ nSubmitted' = nSubmitted + 1
    /\ reqs' = Append(reqs, [id |-> nSubmitted + 1, q |-> question,
                             pc |-> "fetch"])

\* askQuestion, from its call to its first await: the guard, the three
\* setters and the fetch call.
askQuestion ==
    IF Blank(question)
    THEN UNCHANGED <<loading, result, error, reqs, nSubmitted>>
    ELSE /\ loading' = TRUE
         /\ result' = Null
         /\ error' = Null
         /\ nSubmitted' = nSubmitted + 1
         /\ reqs' = Append(reqs, [id |-> nSubmitted + 1, q |-> question,
                                  pc |-> "fetch"])

\* Mutant of Catch: the finally block is missing, loading stays as it is.
Catch_NoFinally(r, message) ==
    /\ error' = Some(message)
    /\ UNCHANGED <<loading, result>>

\* catch (err) { setError(err.message) } finally { setLoading(false) }
Catch(r, message) ==
    /\ error' = Some(message)
    /\ loading' = FALSE
    /\ UNCHANGED result

\* Mutant of SetResult: the response of a request that is not the latest
\* submission is discarded.
SetResult_DropStale(r, data) ==
    /\ result' = IF r.id = nSubmitted THEN data ELSE result
    /\ loading' = FALSE
    /\ UNCHANGED error

\* Mutant of SetResult: the finally block is missing, loading stays as it is.
SetResult_NoFinally(r, data) ==
    /\ result' = data
    /\ UNCHANGED <<loading, error>>

\* setResult(data); finally { setLoading(false) }
SetResult(r, data) ==
    /\ result' = data
    /\ loading' = FALSE
    /\ UNCHANGED error

\* onChange={(e) => setQuestion(e.target.value)}
Type(q) ==
    /\ question' = q
    /\ event' = [kind |-> "type", id |-> 0, out |-> "none", val |-> Null]
    /\ UNCHANGED <<loading, result, error, reqs, nSubmitted>>
    /\ UNCHANGED fmtVars

\* What a submit event did: the id of the request it issued, or 0.
Issued == IF nSubmitted' = nSubmitted THEN 0 ELSE nSubmitted'

\* <Button onClick={askQuestion}>: a disabled button delivers no click.
ClickAsk ==
    /\ ~ButtonDisabled
    /\ MaySubmit
    /\ askQuestion
    /\ event' = [kind |-> "click", id |-> Issued, out |-> "none", val |-> Null]
    /\ UNCHANGED question
    /\ UNCHANGED fmtVars

Keys == {"Enter", "Tab"}

\* handleKeyPress
KeyDown(key, shiftKey) ==
    /\ Blank(question) \/ MaySubmit
    /\ IF key = "Enter" /\ ~shiftKey
       THEN /\ askQuestion
            /\ event' = [kind |-> "enter", id |-> Issued, out |-> "none",
                         val |-> Null]
       ELSE /\ UNCHANGED <<loading, result, error, reqs, nSubmitted>>
            /\ event' = [kind |-> "key", id |-> 0, out |-> "none", val |-> Null]
    /\ UNCHANGED question
    /\ UNCHANGED fmtVars

\* askQuestion resumed at `await fetch(...)`, up to its next await or its end.
FetchSettles(i, o) ==
    /\ reqs[i].pc = "fetch"
    /\ IF o.kind = "rejected"
       THEN /\ Catch(reqs[i], NetworkErrorMessage)
            /\ reqs' = RemoveAt(reqs, i)
            /\ event' = [kind |-> "settled", id |-> reqs[i].id, out |-> "network",
                         val |-> Some(NetworkErrorMessage)]
       ELSE IF ~Ok(o.status)
       THEN /\ Catch(reqs[i], HttpErrorMessage(o.status))
            /\ reqs' = RemoveAt(reqs, i)
            /\ event' = [kind |-> "settled", id |-> reqs[i].id, out |-> "http",
                         val |-> Some(HttpErrorMessage(o.status))]
       ELSE /\ reqs' = [reqs EXCEPT ![i].pc = "json"]
            /\ event' = [kind |-> "headers", id |-> reqs[i].id, out |-> "none",
                         val |-> Null]
            /\ UNCHANGED <<loading, result, error>>
    /\ UNCHANGED <<question, nSubmitted>>
    /\ UNCHANGED fmtVars

\* askQuestion resumed at `await res.json()`, up to its end.
JsonSettles(i, o) ==
    /\ reqs[i].pc = "json"
    /\ IF o.kind = "rejected"
       THEN /\ Catch(reqs[i], ParseErrorMessage)
            /\ event' = [kind |-> "settled", id |-> reqs[i].id, out |-> "parse",
                         val |-> Some(ParseErrorMessage)]
       ELSE /\ SetResult(reqs[i], o.data)
            /\ event' = [kind |-> "settled", id |-> reqs[i].id, out |-> "ok",
                         val |-> o.data]
    /\ reqs' = RemoveAt(reqs, i)
    /\ UNCHANGED <<question, nSubmitted>>
    /\ UNCHANGED fmtVars

UiInit ==
    /\ question = <<>>
    /\ loading = FALSE
    /\ result = Null
    /\ error = Null
    /\ reqs = <<>>
    /\ nSubmitted = 0
    /\ event = [kind |-> "init", id |-> 0, out |-> "none", val |-> Null]

Init ==
    /\ UiInit
    /\ answer = <<>>
    /\ citations = <<>>
    /\ formattedAnswer = <<>>
    /\ index = 0
    /\ fpc = "idle"

Next ==
    \/ \E q \in Questions : Type(q)
    \/ ClickAsk
    \/ \E key \in Keys, shiftKey \in BOOLEAN : KeyDown(key, shiftKey)
    \/ \E i \in 1..Len(reqs), o \in FetchOutcomes : FetchSettles(i, o)
    \/ \E i \in 1..Len(reqs), o \in JsonOutcomes : JsonSettles(i, o)

Spec == Init /\ [][Next]_vars

\* A suspended askQuestion is resumed: the promise it awaits settles.
Settles ==
    \/ \E i \in 1..Len(reqs), o \in FetchOutcomes : FetchSettles(i, o)
    \/ \E i \in 1..Len(reqs), o \in JsonOutcomes : JsonSettles(i, o)

\* The component under the assumption that every promise awaited by
\* askQuestion eventually settles (fulfilled or rejected).
FairSpec == Spec /\ WF_vars(Settles)

(***************************************************************************)
(* String.prototype.replace with a string pattern and a string             *)
(* replacement, and formatAnswerWithCitations built on it.                 *)
(***************************************************************************)
\* The character U+0060 (grave accent), which a TLA+ string cannot hold.
Grave == "grave"

\* SubSeq(s, p, p + Len(pat) - 1) = pat
MatchesAt(s, pat, p) ==
    /\ p + Len(pat) - 1 <= Len(s)
    /\ \A j \in 1..Len(pat) : s[p + j - 1] = pat[j]

\* String.prototype.indexOf, 1-based; 0 when pat does not occur in s.
IndexOf(s, pat) ==
    LET hits == { p \in 1..Len(s) : MatchesAt(s, pat, p) }
    IN  IF hits = {} THEN 0 ELSE CHOOSE p \in hits : \A o \in hits : p <= o

\* GetSubstitution of ECMA-262 for a string pattern (no captures, no named
\* groups): $$ is a dollar sign, $& the matched text, $` the text before the
\* match, $' the text after it; any other $ stands for itself.
RECURSIVE GetSubstitution(_, _, _, _)
GetSubstitution(matched, str, position, replacement) ==
    IF replacement = <<>> THEN <<>>
    ELSE IF Head(replacement) = "$" /\ Len(replacement) >= 2
              /\ replacement[2] \in {"$", "&", Grave, "'"}
    THEN LET rest == SubSeq(replacement, 3, Len(replacement))
             sub  == CASE replacement[2] = "$" -> <<"$">>
                       [] replacement[2] = "&" -> matched
                       [] replacement[2] = Grave -> SubSeq(str, 1, position - 1)
                       [] replacement[2] = "'" ->
                             SubSeq(str, position + Len(matched), Len(str))
         IN  sub \o GetSubstitution(matched, str, position, rest)
    ELSE <<Head(replacement)>>
             \o GetSubstitution(matched, str, position, Tail(replacement))

\* Mutant of Replace: every occurrence of searchValue is replaced, as
\* replaceAll or a /g pattern would.
RECURSIVE Replace_All(_, _, _)
Replace_All(str, searchValue, replaceValue) ==
    LET pos == IndexOf(str, searchValue)
    IN  IF pos = 0 THEN str
        ELSE SubSeq(str, 1, pos - 1)
                 \o GetSubstitution(searchValue, str, pos, replaceValue)
                 \o Replace_All(SubSeq(str, pos + Len(searchValue), Len(str)),
                                searchValue, replaceValue)

\* str.replace(searchValue, replaceValue), both strings: the first occurrence
\* of searchValue is replaced, by the substitution of replaceValue.
Replace(str, searchValue, replaceValue) ==
    LET pos == IndexOf(str, searchValue)
    IN  IF pos = 0 THEN str
        ELSE SubSeq(str, 1, pos - 1)
                 \o GetSubstitution(searchValue, str, pos, replaceValue)
                 \o SubSeq(str, pos + Len(searchValue), Len(str))

\* `[${index + 1}]`, for n = index + 1
Marker(n) == <<"[">> \o NumStr(n) \o <<"]">>

\* `[[${index + 1}]](${citation})`, for n = index + 1
Link(n, citation) ==
    <<"[", "[">> \o NumStr(n) \o <<"]", "]", "(">> \o citation \o <<")">>

\* Mutant of ForEachStep: a marker that is already the text of a link
\* [[n]] somewhere in the text is not rewritten again.
ForEachStep_SkipLinked(text, citation, i) ==
    IF IndexOf(text, <<"[">> \o Marker(i + 1) \o <<"]">>) # 0
    THEN text
    ELSE Replace(text, Marker(i + 1), Link(i + 1, citation))

\* Mutant of ForEachStep: the marker number is index + 2 instead of index + 1.
ForEachStep_OffByOne(text, citation, i) ==
    Replace(text, Marker(i + 2), Link(i + 2, citation))

\* The callback of citations.forEach, for the 0-based index i.
ForEachStep(text, citation, i) ==
    Replace(text, Marker(i + 1), Link(i + 1, citation))

\* citations.forEach over the first n citations, starting from text.
RECURSIVE ForEach(_, _, _)
ForEach(text, cites, n) ==
    IF n = 0 THEN text
    ELSE ForEachStep(ForEach(text, cites, n - 1), cites[n], n - 1)

formatAnswerWithCitations(ans, cites) == ForEach(ans, cites, Len(cites))

\* What <ReactMarkdown> is given: the card is rendered when
\* !loading && result, with the formatted answer as its text.
Card ==
    IF ~loading /\ result # Null
    THEN Some(formatAnswerWithCitations(result[1].answer, result[1].citations))
    ELSE Null

(***************************************************************************)
(* Inputs of formatAnswerWithCitations.                                    *)
(***************************************************************************)
RECURSIVE Flatten(_)
Flatten(ss) == IF ss = <<>> THEN <<>> ELSE Head(ss) \o Flatten(Tail(ss))

SeqsUpTo(n, S) == UNION { [1..k -> S] : k \in 0..n }

\* Answer texts: markers, a stray bracket and the tail of a markdown link
\* (both also the plain text around the markers), in any order.
AnswerPieces ==
    { <<"[", "1", "]">>, <<"[", "2", "]">>, <<"[", "3", "]">>, <<"[">>,
      <<"]", "(", "u", ")">> }

Answers == { Flatten(ps) : ps \in SeqsUpTo(MaxAnsParts, AnswerPieces) }

\* Citation strings: a plain URL, a URL holding marker-shaped text, and URLs
\* holding a dollar sign followed by $, &, ` or '.
CitationPool ==
    { <<"u">>, <<"[", "2", "]">>, <<"$", "&">>, <<"$", "$">>,
      <<"$", Grave, "u", "$", "'">> }

CitationLists == SeqsUpTo(MaxCites, CitationPool)

\* Mutant of FmtInit: formattedAnswer starts as the empty string.
FmtInit_Empty ==
    /\ UiInit
    /\ answer \in Answers
    /\ citations \in CitationLists
    /\ formattedAnswer = <<>>
    /\ index = 0
    /\ fpc = "loop"

\* formatAnswerWithCitations is entered: let formattedAnswer = answer.
FmtInit ==
    /\ UiInit
    /\ answer \in Answers
    /\ citations \in CitationLists
    /\ formattedAnswer = answer
    /\ index = 0
    /\ fpc = "loop"

\* One call of the forEach callback.
FmtForEach ==
    /\ fpc = "loop"
    /\ index < Len(citations)
    /\ formattedAnswer' = ForEachStep(formattedAnswer, citations[index + 1], index)
    /\ index' = index + 1
    /\ UNCHANGED <<answer, citations, fpc>>
    /\ UNCHANGED uiVars

\* return formattedAnswer
FmtReturn ==
    /\ fpc = "loop"
    /\ index = Len(citations)
    /\ fpc' = "returned"
    /\ UNCHANGED <<answer, citations, formattedAnswer, index>>
    /\ UNCHANGED uiVars

FmtNext == FmtForEach \/ FmtReturn

FmtSpec == FmtInit /\ [][FmtNext]_vars

(***************************************************************************)
(* Properties of the component (checked under Spec).                       *)
(***************************************************************************)
SubmitKinds == {"click", "enter"}

\* The messages a failed request can leave in error.
HttpErrorMessages == { HttpErrorMessage(st) : st \in { x \in Statuses : ~Ok(x) } }

\* C1: at most one /ask request is outstanding at any time; a submit event
\* made while a request is pending issues no new request.
C1_AtMostOneOutstanding ==
    /\ Cardinality(Outstanding) <= 1
    /\ (event.kind \in SubmitKinds /\ event.id # 0) => Outstanding = {event.id}

\* C4: the view state is exactly one of idle, pending, settled-success and
\* settled-failure; result and error are never both non-null.
C4_FourViewStates ==
    \/ ~loading /\ result = Null /\ error = Null
    \/ loading /\ result = Null /\ error = Null
    \/ ~loading /\ result # Null /\ error = Null
    \/ ~loading /\ result = Null /\ error # Null

\* C5: whenever a request is outstanding, loading is true.
C5_LoadingWhileOutstanding == Outstanding # {} => loading

\* C6: a submit event (click or Enter) made while the trimmed question is
\* empty issues no request and leaves loading, result and error unchanged.
C6_BlankSubmitIsNoOp ==
    [][(event'.kind \in SubmitKinds /\ Blank(question))
          => /\ nSubmitted' = nSubmitted
             /\ reqs' = reqs
             /\ loading' = loading
             /\ result' = result
             /\ error' = error]_vars

\* Enter was pressed on a white-space-only question while a request was
\* pending: nothing was issued, the request is still the only one.
C6_Witness ==
    /\ event.kind = "enter"
    /\ event.id = 0
    /\ question # <<>>
    /\ Blank(question)
    /\ loading
    /\ Len(reqs) = 1

\* C7: when a request settles with a non-2xx status, error is the message
\* derived from that status and no result card is rendered.
C7_HttpErrorNoCard ==
    (event.kind = "settled" /\ event.out = "http")
        => /\ error \in { Some(m) : m \in HttpErrorMessages }
           /\ error = event.val
           /\ Card = Null

\* C8: when a request fails (network failure or non-2xx status) the failure
\* is stored as the error string and loading is set to false; the session
\* stays usable: with a non-blank question the button is enabled and Enter is
\* handled, and such a submit issues a new request.
C8_FailureKeepsSessionUsable ==
    /\ [][(event'.kind = "settled" /\ event'.out \in {"network", "http"}
              /\ event'.id \in Outstanding /\ event'.id \notin Outstanding')
            => /\ error' = event'.val
               /\ error' \in { Some(m) : m \in HttpErrorMessages
                                               \cup {NetworkErrorMessage} }
               /\ loading' = FALSE]_vars
    /\ []((event.kind = "settled" /\ event.out \in {"network", "http"}
              /\ ~Blank(question) /\ MaySubmit)
            => /\ ENABLED ClickAsk
               /\ ENABLED KeyDown("Enter", FALSE))
    /\ [][(event'.kind \in SubmitKinds /\ ~Blank(question))
            => /\ nSubmitted' = nSubmitted + 1
               /\ event'.id = nSubmitted'
               /\ Outstanding' = Outstanding \cup {nSubmitted'}
               /\ reqs'[Len(reqs')].pc = "fetch"]_vars

\* A request has just failed with a 4xx/5xx status, a question is in the box
\* and the Ask button is enabled.
C8_Witness ==
    /\ event.kind = "settled"
    /\ event.out = "http"
    /\ error = event.val
    /\ ~loading
    /\ ~Blank(question)
    /\ ~ButtonDisabled
    /\ ENABLED ClickAsk

\* C9: an accepted submission clears the result at once, and the result of
\* an earlier request is not displayed while that submission is pending.
C9_ResultClearedWhilePending ==
    /\ (event.kind \in SubmitKinds /\ event.id # 0) => result = Null
    /\ nSubmitted \in Outstanding => Card = Null

\* C10: a response is written into the view state whichever submission it
\* belongs to: the step that settles a request stores its outcome (result on
\* success, error on failure) and sets loading to false, also when a later
\* submission has begun; so the state displayed is that of the response that
\* settled last.
C10_StaleResponseIsWritten ==
    [][(event'.kind = "settled" /\ event'.id \in Outstanding
            /\ event'.id \notin Outstanding')
          => /\ IF event'.out = "ok" THEN result' = event'.val
                                     ELSE error' = event'.val
             /\ loading' = FALSE]_vars

\* The first of two submissions settled last, with a body: no request is
\* outstanding and its body is what the card shows.
C10_Witness ==
    /\ event.kind = "settled"
    /\ event.out = "ok"
    /\ event.id < nSubmitted
    /\ reqs = <<>>
    /\ result = event.val
    /\ Card # Null

(***************************************************************************)
(* Properties of formatAnswerWithCitations (checked under FmtSpec).        *)
(***************************************************************************)
\* The step the specification describes: the first occurrence of pat in str
\* is replaced by the literal text rep.
ReplaceFirstLiteral(str, pat, rep) ==
    LET pos == IndexOf(str, pat)
    IN  IF pos = 0 THEN str
        ELSE SubSeq(str, 1, pos - 1) \o rep
                 \o SubSeq(str, pos + Len(pat), Len(str))

\* The left fold of that step over the first n citations.
RECURSIVE LiteralFold(_, _, _)
LiteralFold(text, cites, n) ==
    IF n = 0 THEN text
    ELSE ReplaceFirstLiteral(LiteralFold(text, cites, n - 1),
                             Marker(n), Link(n, cites[n]))

Occurrences(s, pat) == { p \in 1..Len(s) : MatchesAt(s, pat, p) }

Contains(s, pat) == Occurrences(s, pat) # {}

\* The marker at position p of s is the text of a markdown link, [[k]](...
InLink(s, pat, p) ==
    /\ p > 1
    /\ s[p - 1] = "["
    /\ MatchesAt(s, <<"]", "(">>, p + Len(pat))

\* C2: the value returned is the left fold, over the citations in ascending
\* order, of "replace the first occurrence of [i+1] by the literal text
\* [[i+1]](citations[i])".
C2_FoldOfLiteralReplacements ==
    fpc = "returned"
        => formattedAnswer = LiteralFold(answer, citations, Len(citations))

\* C3: for k in 1..citations.length, if [k] occurs exactly once in the answer
\* and not as the text of a markdown link, then in the value returned that
\* occurrence is replaced by [[k]](citations[k-1]): the link is in the output.
C3_UniqueMarkerLinked ==
    fpc = "returned"
        => \A k \in 1..Len(citations) :
              LET occ == Occurrences(answer, Marker(k))
              IN  (/\ Cardinality(occ) = 1
                   /\ \A p \in occ : ~InLink(answer, Marker(k), p))
                      => Contains(formattedAnswer, Link(k, citations[k]))

\* The text after each step of the loop, as a sequence: its element n + 1 is
\* the text after the first n citations.
RECURSIVE TextsUpTo(_, _, _)
TextsUpTo(ans, cites, n) ==
    IF n = 0 THEN <<ans>>
    ELSE LET prev == TextsUpTo(ans, cites, n - 1)
         IN  Append(prev, ForEachStep(prev[n], cites[n], n - 1))

Texts(ans, cites) == TextsUpTo(ans, cites, Len(cites))

\* The text after the first n citations.
After(texts, n) == texts[n + 1]

\* Where the character at position p of the answer stands after the first n
\* steps of the loop, texts being the text after each step: text before the
\* replaced marker keeps its place, text after it moves by the change of
\* length, and a replaced marker [n] is found again one place further, inside
\* the [[n]]( that replaced it.
RECURSIVE Track(_, _, _)
Track(texts, p, n) ==
    IF n = 0 THEN p
    ELSE LET m == IndexOf(After(texts, n - 1), Marker(n))
             q == Track(texts, p, n - 1)
         IN  IF m = 0 \/ q < m THEN q
             ELSE IF q = m THEN m + 1
             ELSE q + Len(After(texts, n)) - Len(After(texts, n - 1))

\* The marker numbers an answer may hold.
MarkerNumbers == 1..(MaxCites + 1)

\* The marker [k] that stood at position p of the answer is the same literal
\* text after the last step, and the text of a link only if it was one.
StaysLiteral(texts, p, k) ==
    LET last == Len(citations)
        q == Track(texts, p, last)
    IN  /\ MatchesAt(After(texts, last), Marker(k), q)
        /\ InLink(After(texts, last), Marker(k), q)
               = InLink(After(texts, 0), Marker(k), p)

\* C11: every occurrence of a marker [k] with k > citations.length is left
\* untouched: the value returned holds the same literal text at the place
\* the occurrence has moved to, and it is the text of a link there only if
\* it was one in the answer.
C11_OutOfRangeMarkerUntouched ==
    fpc = "returned"
        => \A texts \in {Texts(answer, citations)} :
               /\ formattedAnswer = After(texts, Len(citations))
               /\ \A k \in MarkerNumbers :
                     k > Len(citations)
                         => \A p \in Occurrences(answer, Marker(k)) :
                               StaysLiteral(texts, p, k)

\* A marker beyond the citation list stands after a marker that was
\* rewritten: it has moved, and is still there.
C11_Witness ==
    /\ fpc = "returned"
    /\ Len(citations) >= 1
    /\ \E k \in MarkerNumbers :
          /\ k > Len(citations)
          /\ \E p \in Occurrences(answer, Marker(k)) :
                \E q \in {Track(Texts(answer, citations), p, Len(citations))} :
                    /\ q > p
                    /\ MatchesAt(formattedAnswer, Marker(k), q)

\* The first occurrence of pat in s (s holds one).
First(s, pat) == CHOOSE p \in Occurrences(s, pat) :
                     \A o \in Occurrences(s, pat) : p <= o

\* The step for [k] rewrites the marker that stood at position p of the
\* answer.
Rewrites(texts, p, k) ==
    IndexOf(After(texts, k - 1), Marker(k)) = Track(texts, p, k - 1)

\* The marker [k] that stood at position p of the answer is, after the last
\* step, the text of the link [[k]]( written for it.
IsLinked(texts, p, k) ==
    LET last == Len(citations)
        q == Track(texts, p, last)
    IN  /\ q > 1
        /\ MatchesAt(After(texts, last),
                     <<"[">> \o Marker(k) \o <<"]", "(">>, q - 1)

\* The markers that occur several times in the answer and have a citation.
Repeated ==
    { k \in 1..Len(citations) : Cardinality(Occurrences(answer, Marker(k))) >= 2 }

\* C12 as stated: of a marker [k] (k <= citations.length) that occurs several
\* times in the answer, the first occurrence is rewritten as a link and the
\* later occurrences stay literal.
C12_FirstOccurrenceLinked ==
    (fpc = "returned" /\ Repeated # {})
        => \A texts \in {Texts(answer, citations)} :
               \A k \in Repeated :
                  LET first == First(answer, Marker(k))
                  IN  /\ Rewrites(texts, first, k)
                      /\ \A p \in Occurrences(answer, Marker(k)) \ {first} :
                            StaysLiteral(texts, p, k)

\* C12 as amended: the later occurrences stay literal, and at most the first
\* occurrence is rewritten as a link; it is rewritten unless the text written
\* for an earlier citation holds [k] before it, and then that [k] is
\* rewritten and every occurrence of the answer stays literal.
C12_AtMostFirstOccurrenceLinked ==
    (fpc = "returned" /\ Repeated # {})
        => \A texts \in {Texts(answer, citations)} :
               /\ formattedAnswer = After(texts, Len(citations))
               /\ \A k \in Repeated :
                     LET first == First(answer, Marker(k))
                     IN  /\ \A p \in Occurrences(answer, Marker(k)) \ {first} :
                               StaysLiteral(texts, p, k)
                         /\ IF Rewrites(texts, first, k)
                            THEN IsLinked(texts, first, k)
                            ELSE /\ StaysLiteral(texts, first, k)
                                 /\ After(texts, k - 1) # answer
                                 /\ IndexOf(After(texts, k - 1), Marker(k))
                                        < Track(texts, first, k - 1)

\* A marker occurs twice, its first occurrence is now a link and its second
\* occurrence is still the literal marker.
C12_Witness ==
    /\ fpc = "returned"
    /\ \E k \in Repeated :
          \E texts \in {Texts(answer, citations)},
             first \in {First(answer, Marker(k))} :
              /\ IsLinked(texts, first, k)
              /\ \E p \in Occurrences(answer, Marker(k)) \ {first} :
                    StaysLiteral(texts, p, k)

\* formatAnswerWithCitations applied to the value it returned, with the same
\* citations.
SecondPass == formatAnswerWithCitations(formattedAnswer, citations)

\* C13: idempotence is not guaranteed. Whenever the call rewrote a marker,
\* the value returned holds marker-shaped text [k] (inside the link written)
\* and a second application with the same citations changes it again; so the
\* two applications differ for every input in which a marker is rewritten.
C13_SecondPassDiffers ==
    (fpc = "returned" /\ formattedAnswer # answer)
        => \A second \in {SecondPass} :
               /\ \E k \in 1..Len(citations) :
                     Contains(formattedAnswer, Marker(k))
               /\ second # formattedAnswer
               /\ Len(second) > Len(formattedAnswer)

\* An answer with one marker and no link: the first application writes the
\* link, the second rewrites the [1] inside it.
C13_Witness ==
    /\ fpc = "returned"
    /\ Cardinality(Occurrences(answer, Marker(1))) = 1
    /\ ~Contains(answer, <<"[", "[">>)
    /\ Contains(formattedAnswer, <<"[", "[", "1", "]", "]", "(">>)
    /\ SecondPass # formattedAnswer
    /\ Contains(SecondPass, <<"[", "[", "[", "1", "]", "]", "(">>)

\* C14: with an empty citation list the answer is returned unchanged.
C14_EmptyCitationsIdentity ==
    (fpc = "returned" /\ citations = <<>>) => formattedAnswer = answer

\* An answer holding a marker was formatted with no citation.
C14_Witness ==
    /\ fpc = "returned"
    /\ citations = <<>>
    /\ Contains(answer, Marker(1))
    /\ formattedAnswer = answer

(***************************************************************************)
(* Further properties of the component.                                    *)
(***************************************************************************)
\* C15: in every reachable state, overlapping requests included, loading
\* implies result = null and error = null.
C15_LoadingImpliesCleared == loading => (result = Null /\ error = Null)

\* Two requests overlap after an earlier one has settled: loading is true
\* and neither a result nor an error is stored.
C15_Witness ==
    /\ loading
    /\ Len(reqs) = 2
    /\ nSubmitted = 3
    /\ result = Null
    /\ error = Null

\* C16: loading is false in every state where no request is outstanding,
\* and, every issued request settling eventually, every accepted submission
\* (which sets loading) is eventually followed by a state with loading false.
C16_LoadingNeverSticks ==
    /\ [](Outstanding = {} => ~loading)
    /\ [][(event'.kind \in SubmitKinds /\ event'.id = nSubmitted + 1)
            => loading']_vars
    /\ loading ~> ~loading

\* Every request issued has settled, the last one with a failure, and
\* loading is false.
C16_Witness ==
    /\ nSubmitted >= 2
    /\ Outstanding = {}
    /\ event.kind = "settled"
    /\ event.out \in {"network", "http", "parse"}
    /\ ~loading

====
